---- MODULE Spec2Model ----
(***************************************************************************)
(* Model of tools/seq_analysis/signalp3.py: the Galaxy wrapper that splits *)
(* a protein FASTA file into chunk files, runs SignalP v3.0 once per chunk *)
(* with os.system, and merges the raw results into one tabular file.       *)
(*                                                                         *)
(* A Python string is a sequence of one-character strings; a text file is  *)
(* the sequence of its lines (each line keeps its terminator), which is    *)
(* what "for line in handle" iterates over.  A path is a tuple: the input  *)
(* name followed by the suffixes appended to it.                           *)
(***************************************************************************)
EXTENDS Integers, Sequences, FiniteSets, TLC

(***************************************************************************)
(* Bounds of the model.                                                    *)
(***************************************************************************)
\* longest FASTA input, in lines
MaxLines == 3
\* largest chunk size tried besides the program's FASTA_CHUNK
MaxChunk == 2
\* the truncate length tried besides the program's TRUNCATE
MaxTrunc == 3

(***************************************************************************)
(* Program constants (signalp3.py:42-43).                                  *)
(***************************************************************************)
FASTA_CHUNK == 500
TRUNCATE == 60

(***************************************************************************)
(* Python string operations used by the script.                            *)
(***************************************************************************)
\* characters str.strip() / str.split() treat as whitespace
Whitespace == {" ", "\t", "\n", "\r"}

\* s[a:b] for 0 <= a, Python slice semantics (0-based, b exclusive, clipped)
Slice(s, a, b) ==
  LET hi == IF b > Len(s) THEN Len(s) ELSE b
  IN  IF a >= hi THEN <<>> ELSE SubSeq(s, a + 1, hi)

\* s[a:]
SliceFrom(s, a) == Slice(s, a, Len(s))

\* s.startswith(p)
startswith(s, p) == Len(p) <= Len(s) /\ SubSeq(s, 1, Len(p)) = p

\* s.rstrip(chars)
RECURSIVE rstripChars(_, _)
rstripChars(s, chars) ==
  IF s # <<>> /\ s[Len(s)] \in chars
  THEN rstripChars(SubSeq(s, 1, Len(s) - 1), chars)
  ELSE s

\* s.lstrip()
RECURSIVE lstrip(_)
lstrip(s) ==
  IF s # <<>> /\ s[1] \in Whitespace THEN lstrip(Tail(s)) ELSE s

\* s.rstrip()
rstrip(s) == rstripChars(s, Whitespace)

\* s.strip()
strip(s) == lstrip(rstrip(s))

\* the first index >= i of s that holds no whitespace (Len(s) + 1 if none)
RECURSIVE SkipBlanks(_, _)
SkipBlanks(s, i) ==
  IF i <= Len(s) /\ s[i] \in Whitespace THEN SkipBlanks(s, i + 1) ELSE i

\* the last index of the run of non-whitespace characters that starts at i
RECURSIVE WordEnd(_, _)
WordEnd(s, i) ==
  IF i < Len(s) /\ s[i + 1] \notin Whitespace THEN WordEnd(s, i + 1) ELSE i

\* the words of s from index i on
RECURSIVE splitAt(_, _)
splitAt(s, i) ==
  LET a == SkipBlanks(s, i) IN
  IF a > Len(s) THEN <<>>
  ELSE LET b == WordEnd(s, a) IN <<SubSeq(s, a, b)>> \o splitAt(s, b + 1)

\* s.split(): the maximal runs of non-whitespace characters, in order
split(s) == splitAt(s, 1)

\* sep.join(parts)
RECURSIVE join(_, _)
join(sep, parts) ==
  IF parts = <<>> THEN <<>>
  ELSE IF Len(parts) = 1 THEN parts[1]
  ELSE parts[1] \o sep \o join(sep, Tail(parts))

\* the first index >= i of s that holds sep (Len(s) + 1 if none)
RECURSIVE FindSep(_, _, _)
FindSep(s, sep, i) ==
  IF i <= Len(s) /\ s[i] # sep THEN FindSep(s, sep, i + 1) ELSE i

\* the fields of s from index i on
RECURSIVE splitOnAt(_, _, _)
splitOnAt(s, sep, i) ==
  LET j == FindSep(s, sep, i) IN
  IF j > Len(s) THEN <<SubSeq(s, i, Len(s))>>
  ELSE <<SubSeq(s, i, j - 1)>> \o splitOnAt(s, sep, j + 1)

\* s.split(sep) for a one-character sep: the fields between separators
splitOn(s, sep) == splitOnAt(s, sep, 1)

(***************************************************************************)
(* Inputs of a run.                                                        *)
(***************************************************************************)
\* the lines a FASTA input is made of: two headers (one with trailing
\* blanks), a header with an empty title, a sequence line, a comment line
\* and a blank line
FastaLines ==
  { <<">", "a", "\n">>,
    <<">", "b", " ", "\n">>,
    <<">", "\n">>,
    <<"A", "C", "D", "\n">>,
    <<"#", "c", "\n">>,
    <<"\n">> }

\* all sequences over S of length at most k
RECURSIVE SeqsUpTo(_, _)
SeqsUpTo(S, k) ==
  IF k = 0 THEN {<<>>}
  ELSE LET shorter == SeqsUpTo(S, k - 1)
       IN  shorter \cup {Append(q, x) : q \in {r \in shorter : Len(r) = k - 1}, x \in S}

FastaInputs == SeqsUpTo(FastaLines, MaxLines)

\* chunk sizes and truncate lengths passed to split_fasta
ChunkSizes == (1..MaxChunk) \cup {FASTA_CHUNK}
TruncateLengths == {MaxTrunc, TRUNCATE}

\* command lines: sys.argv[1:] (sys.argv[0] is the script)
fasta_file == "in.fasta"
tabular_file == "out.tabular"
ArgvInputs ==
  { <<"gram-", fasta_file, tabular_file>>,
    <<"plant", fasta_file, tabular_file>>,
    <<"Euk", fasta_file, tabular_file>>,
    <<"euk", fasta_file>>,
    <<"euk", fasta_file, tabular_file, "extra">> }

(***************************************************************************)
(* fasta_iterator (signalp3.py:57-78).  The generator's state is the       *)
(* index of the next line to read, the title and sequence accumulated so   *)
(* far, and whether the generator has finished.                            *)
(***************************************************************************)
NewIterator == [pos |-> 1, title |-> <<>>, seq |-> <<>>, closed |-> FALSE]

\* Ignorable that passes over blank lines only
IgnorableBlankOnly(line) == strip(line) = <<>>

\* line 69: the lines passed over while no title is held
Ignorable(line) == strip(line) = <<>> \/ startswith(line, <<"#">>)

\* IterNext without the test of line 76: the end of the input always
\* yields the title and sequence held, even when no header was read
RECURSIVE IterNextAlwaysYield(_, _)
IterNextAlwaysYield(lines, it) ==
  IF it.closed
  THEN [it |-> it, kind |-> "StopIteration", rec |-> <<>>]
  ELSE IF it.pos > Len(lines)
  THEN [it |-> [it EXCEPT !.closed = TRUE], kind |-> "record",
        rec |-> <<it.title, it.seq>>]
  ELSE LET line == lines[it.pos] IN
       IF startswith(line, <<">">>)
       THEN LET after == [it EXCEPT !.pos = it.pos + 1,
                                    !.title = rstrip(SliceFrom(line, 1)),
                                    !.seq = <<>>]
            IN  IF it.title # <<>>
                THEN [it |-> after, kind |-> "record", rec |-> <<it.title, it.seq>>]
                ELSE IterNextAlwaysYield(lines, after)
       ELSE IF it.title # <<>>
       THEN IterNextAlwaysYield(lines, [it EXCEPT !.pos = it.pos + 1,
                                                  !.seq = it.seq \o strip(line)])
       ELSE IF Ignorable(line)
       THEN IterNextAlwaysYield(lines, [it EXCEPT !.pos = it.pos + 1])
       ELSE [it |-> [it EXCEPT !.closed = TRUE], kind |-> "ValueError", rec |-> <<>>]

\* one iterator.next(): runs the generator to its next yield, to its end
\* (StopIteration) or to the ValueError of line 74
RECURSIVE IterNext(_, _)
IterNext(lines, it) ==
  IF it.closed
  THEN [it |-> it, kind |-> "StopIteration", rec |-> <<>>]
  ELSE IF it.pos > Len(lines)
  THEN \* end of the for loop: close, yield the last record if any
       IF it.title # <<>>
       THEN [it |-> [it EXCEPT !.closed = TRUE], kind |-> "record",
             rec |-> <<it.title, it.seq>>]
       ELSE [it |-> [it EXCEPT !.closed = TRUE], kind |-> "StopIteration",
             rec |-> <<>>]
  ELSE LET line == lines[it.pos] IN
       IF startswith(line, <<">">>)
       THEN LET after == [it EXCEPT !.pos = it.pos + 1,
                                    !.title = rstrip(SliceFrom(line, 1)),
                                    !.seq = <<>>]
            IN  IF it.title # <<>>
                THEN [it |-> after, kind |-> "record", rec |-> <<it.title, it.seq>>]
                ELSE IterNext(lines, after)
       ELSE IF it.title # <<>>
       THEN IterNext(lines, [it EXCEPT !.pos = it.pos + 1,
                                       !.seq = it.seq \o strip(line)])
       ELSE IF Ignorable(line)
       THEN IterNext(lines, [it EXCEPT !.pos = it.pos + 1])
       ELSE [it |-> [it EXCEPT !.closed = TRUE], kind |-> "ValueError", rec |-> <<>>]

(***************************************************************************)
(* split_fasta (signalp3.py:80-107).                                       *)
(***************************************************************************)
\* DrawRecords with the loop bound off by one: range(n + 1)
RECURSIVE DrawOneMore(_, _, _, _)
DrawOneMore(lines, it, i, records) ==
  IF i < 0 THEN [it |-> it, records |-> records, raised |-> "none"]
  ELSE LET r == IterNext(lines, it) IN
       IF r.kind = "record"
       THEN DrawOneMore(lines, r.it, i - 1, Append(records, r.rec))
       ELSE IF r.kind = "StopIteration"
       THEN [it |-> r.it, records |-> records, raised |-> "none"]
       ELSE [it |-> r.it, records |-> records, raised |-> r.kind]

\* lines 89-94: draw up to n records; StopIteration ends the draw, any
\* other exception leaves the function
RECURSIVE DrawRecords(_, _, _, _)
DrawRecords(lines, it, i, records) ==
  IF i = 0 THEN [it |-> it, records |-> records, raised |-> "none"]
  ELSE LET r == IterNext(lines, it) IN
       IF r.kind = "record"
       THEN DrawRecords(lines, r.it, i - 1, Append(records, r.rec))
       ELSE IF r.kind = "StopIteration"
       THEN [it |-> r.it, records |-> records, raised |-> "none"]
       ELSE [it |-> r.it, records |-> records, raised |-> r.kind]

\* line 100: "%s.%i.tmp" % (filename, len(files))
ChunkName(filename, i) == <<filename, i, "tmp">>

\* RecordText writing the whole sequence: seq for seq[:truncate]
RecordTextWhole(rec, t) ==
  << <<">">> \o rec[1] \o <<"\n">>, rec[2] \o <<"\n">> >>

\* line 103: ">%s\n%s\n" % (title, seq[:truncate]), as the two lines written
RecordText(rec, t) ==
  << <<">">> \o rec[1] \o <<"\n">>, Slice(rec[2], 0, t) \o <<"\n">> >>

\* ChunkText writing the records of a chunk last to first
RECURSIVE ChunkTextReversed(_, _)
ChunkTextReversed(records, t) ==
  IF records = <<>> THEN <<>>
  ELSE ChunkTextReversed(Tail(records), t) \o RecordText(records[1], t)

\* lines 102-103: the text of one chunk file
RECURSIVE ChunkText(_, _)
ChunkText(records, t) ==
  IF records = <<>> THEN <<>>
  ELSE RecordText(records[1], t) \o ChunkText(Tail(records), t)

(***************************************************************************)
(* The external tool's raw output (signalp3.py:12-17): what one invocation *)
(* can leave in its result file.                                           *)
(***************************************************************************)
\* a raw line: the fields, sep between them, tab before field 14, and end
RECURSIVE RawLineFrom(_, _, _, _)
RawLineFrom(fields, i, sep, end) ==
  IF i > Len(fields) THEN end
  ELSE fields[i]
       \o (IF i = Len(fields) THEN <<>>
           ELSE IF i = 14 THEN <<"\t">> ELSE sep)
       \o RawLineFrom(fields, i + 1, sep, end)

\* the 13 NN values and the 6 HMM values of a record
NNValues ==
  << <<"0", "1">>, <<"a">>, <<"N">>, <<"2">>, <<"b">>, <<"Y">>,
     <<"3">>, <<"c">>, <<"n">>, <<"4">>, <<"y">>, <<"5">>, <<"M">> >>
HMMValues ==
  << <<"Q">>, <<"6">>, <<"d">>, <<"m">>, <<"7">>, <<"S">> >>

\* truncated name "gi", full name "gi1"; blanks at the end as the tool leaves
good1 ==
  RawLineFrom(<< <<"g", "i">> >> \o NNValues \o << <<"g", "i", "1">> >> \o HMMValues,
              1, <<" ">>, <<" ", " ", "\n">>)
\* name "x" not truncated; two blanks between fields, CR LF at the end
good2 ==
  RawLineFrom(<< <<"x">> >> \o NNValues \o << <<"x">> >> \o HMMValues,
              1, <<" ", " ">>, <<"\r", "\n">>)
\* a header line of the tool
comment == <<"#", " ", "n", "a", "m", "e", "\n">>
\* a line of 21 fields that starts with "#", its field 14 not starting with
\* its field 0
header21 ==
  RawLineFrom(<< <<"#", "g", "i">> >> \o NNValues \o << <<"h", "i", "1">> >> \o HMMValues,
              1, <<" ">>, <<"\n">>)
\* a blank line
blank == <<"\n">>
\* 20 fields: the last HMM value is missing
short ==
  RawLineFrom(<< <<"g", "i">> >> \o NNValues \o << <<"g", "i", "1">> >>
                \o SubSeq(HMMValues, 1, 5),
              1, <<" ">>, <<"\n">>)
\* 21 fields, but field 14 does not start with field 0
mismatch ==
  RawLineFrom(<< <<"g", "i">> >> \o NNValues \o << <<"h", "i", "1">> >> \o HMMValues,
              1, <<" ">>, <<"\n">>)

\* result files a zero-status invocation can leave
ToolOutputs ==
  { <<good2>>,
    <<comment, header21, good1, good2>>,
    <<good2, blank>>,
    <<short>>,
    <<good1, mismatch>> }

\* result files a failing invocation can leave
FailOutputs == { <<comment>> }

\* os.system's return value: the 16-bit wait status, exit code in the high
\* byte or terminating signal in the low byte
ExitCodes == {0, 1, 127}
Signals == {9}
WaitStatuses ==
  {(c * 256) % 65536 : c \in ExitCodes} \cup {s % 128 : s \in Signals}

(***************************************************************************)
(* clean_tabular (signalp3.py:109-119).                                    *)
(***************************************************************************)
\* Reorder that keeps the truncated name column: parts[0:14] for parts[1:14]
ReorderKeepName(parts) ==
  Slice(parts, 14, 15) \o Slice(parts, 0, 14) \o SliceFrom(parts, 15)

\* line 118: parts[14:15] + parts[1:14] + parts[15:]
Reorder(parts) == Slice(parts, 14, 15) \o Slice(parts, 1, 14) \o SliceFrom(parts, 15)

\* lines 111-112: the lines clean_tabular passes over
Skipped(line) == line = <<>> \/ startswith(line, <<"#">>)

\* line 113
Parts(line) == split(rstripChars(line, {"\r", "\n"}))

\* the first assertion off by one: 20 parts pass as well
AssertsLoose(parts) == Len(parts) \in {20, 21} /\ startswith(parts[15], parts[1])

\* the second assertion left out
AssertsCountOnly(parts) == Len(parts) = 21

\* lines 114-115: the two assertions
Asserts(parts) == Len(parts) = 21 /\ startswith(parts[15], parts[1])

\* line 119: the text written for one data line
Normalized(parts) == join(<<"\t">>, Reorder(parts)) \o <<"\n">>

\* clean_tabular writing at the start of the output instead of its end,
\* as if the output were opened anew for each result file
RECURSIVE clean_tabularFrom(_, _)
clean_tabularFrom(raw, out) ==
  IF raw = <<>> THEN [out |-> out, raised |-> "none"]
  ELSE LET line == raw[1] IN
       IF Skipped(line) THEN clean_tabularFrom(Tail(raw), out)
       ELSE LET parts == Parts(line) IN
            IF ~Asserts(parts)
            THEN [out |-> out, raised |-> "AssertionError"]
            ELSE clean_tabularFrom(Tail(raw), Append(out, Normalized(parts)))

clean_tabularRewind(raw, out) == clean_tabularFrom(raw, <<>>)

\* the loop over one result file: the lines written to out_handle, and the
\* AssertionError that ends it early
RECURSIVE clean_tabular(_, _)
clean_tabular(raw, out) ==
  IF raw = <<>> THEN [out |-> out, raised |-> "none"]
  ELSE LET line == raw[1] IN
       IF Skipped(line) THEN clean_tabular(Tail(raw), out)
       ELSE LET parts == Parts(line) IN
            IF ~Asserts(parts)
            THEN [out |-> out, raised |-> "AssertionError"]
            ELSE clean_tabular(Tail(raw), Append(out, Normalized(parts)))

(***************************************************************************)
(* The header (signalp3.py:141-149).  A column name is one string.         *)
(***************************************************************************)
\* line 144: "NN_%s_score" % name, "NN_%s_pos" % name, "NN_%s_pred" % name
NNNames(name) ==
  IF name = "Cmax" THEN <<"NN_Cmax_score", "NN_Cmax_pos", "NN_Cmax_pred">>
  ELSE IF name = "Ymax" THEN <<"NN_Ymax_score", "NN_Ymax_pos", "NN_Ymax_pred">>
  ELSE <<"NN_Smax_score", "NN_Smax_pos", "NN_Smax_pred">>

\* fields with five HMM names: "HMM_type" left out
fieldsNoType ==
  <<"ID">>
  \o NNNames("Cmax") \o NNNames("Ymax") \o NNNames("Smax")
  \o <<"NN_Smean_score", "NN_Smean_pred", "NN_D_score", "NN_D_pred">>
  \o <<"HMM_Cmax_score", "HMM_Cmax_pos", "HMM_Cmax_pred",
       "HMM_Sprob_score", "HMM_Sprob_pred">>

fields ==
  <<"ID">>
  \o NNNames("Cmax") \o NNNames("Ymax") \o NNNames("Smax")
  \o <<"NN_Smean_score", "NN_Smean_pred", "NN_D_score", "NN_D_pred">>
  \o <<"HMM_type", "HMM_Cmax_score", "HMM_Cmax_pos", "HMM_Cmax_pred",
       "HMM_Sprob_score", "HMM_Sprob_pred">>

\* line 149: "#" + "\t".join(fields) + "\n"
HeaderLine == <<"#">> \o join(<<"\t">>, [i \in 1..Len(fields) |-> <<fields[i]>>]) \o <<"\n">>

(***************************************************************************)
(* State of one run of the script.                                         *)
(***************************************************************************)
VARIABLES
  argv,         \* sys.argv[1:]
  input,        \* the lines of the input FASTA file
  n,            \* split_fasta's chunk size
  truncate,     \* split_fasta's truncate length
  pc,           \* where the script is
  it,           \* split_fasta's iterator
  files,        \* split_fasta's list of chunk file names
  fasta_files,  \* line 121
  temp_files,   \* line 122
  k,            \* index of the loops over the chunks (lines 131, 150)
  error_level,  \* line 130, 134
  cmds,         \* the commands handed to os.system, in order
  fs,           \* the files on disk the run creates: path -> lines
  out_handle,   \* line 140: "none", "open" or "closed"
  raised,       \* how the run failed: "none", "SystemExit" or an exception
  exit_status   \* the status the caller observes, -1 while running

vars == <<argv, input, n, truncate, pc, it, files, fasta_files, temp_files, k,
          error_level, cmds, fs, out_handle, raised, exit_status>>

Init ==
  /\ argv \in ArgvInputs
  /\ input \in FastaInputs
  /\ n \in ChunkSizes
  /\ truncate \in TruncateLengths
  /\ pc = "args"
  /\ it = NewIterator
  /\ files = <<>>
  /\ fasta_files = <<>>
  /\ temp_files = <<>>
  /\ k = 0
  /\ error_level = 0
  /\ cmds = <<>>
  /\ fs = <<>>
  /\ out_handle = "none"
  /\ raised = "none"
  /\ exit_status = -1

(***************************************************************************)
(* Files.                                                                  *)
(***************************************************************************)
\* os.path.isfile(f)
isfile(disk, f) == f \in DOMAIN disk

\* os.remove(f): OSError when f does not exist
remove(disk, f) ==
  IF f \in DOMAIN disk
  THEN [disk |-> [p \in DOMAIN disk \ {f} |-> disk[p]], raised |-> "none"]
  ELSE [disk |-> disk, raised |-> "OSError"]

\* open(f, "w"), write, close: f holds exactly text
WriteFile(disk, f, text) ==
  [p \in DOMAIN disk \cup {f} |-> IF p = f THEN text ELSE disk[p]]

\* clean_up without the os.path.isfile test
RECURSIVE clean_upNoTest(_, _)
clean_upNoTest(disk, file_list) ==
  IF file_list = <<>> THEN [disk |-> disk, raised |-> "none"]
  ELSE LET r == remove(disk, file_list[1]) IN
       IF r.raised = "none" THEN clean_upNoTest(r.disk, Tail(file_list)) ELSE r

\* clean_up (lines 124-127): the disk it leaves, and the exception that
\* ended it early
RECURSIVE clean_up(_, _)
clean_up(disk, file_list) ==
  IF file_list = <<>> THEN [disk |-> disk, raised |-> "none"]
  ELSE LET f == file_list[1] IN
       IF isfile(disk, f)
       THEN LET r == remove(disk, f) IN
            IF r.raised = "none" THEN clean_up(r.disk, Tail(file_list)) ELSE r
       ELSE clean_up(disk, Tail(file_list))

\* the clean-up with its second call left out: the result files stay
CleanBothChunksOnly(disk, chunks, results) == clean_up(disk, chunks)

\* lines 136-137 and 156-157: clean_up(fasta_files) then clean_up(temp_files)
CleanBoth(disk, chunks, results) ==
  LET a == clean_up(disk, chunks) IN
  IF a.raised = "none" THEN clean_up(a.disk, results) ELSE a

\* line 122: f + ".out"
TempName(f) == Append(f, "out")

\* the path of the output table
TabularPath == <<tabular_file>>

(***************************************************************************)
(* Leaving the process.                                                    *)
(***************************************************************************)
\* the status a caller sees for sys.exit(arg): the low 8 bits
Observed(arg) == arg % 256

\* stop_err without its sys.exit: the script runs on
stop_errNoExit(level) ==
  /\ raised' = "SystemExit"
  /\ exit_status' = -1
  /\ pc' = pc

\* stop_err (lines 45-47): sys.exit(error_level)
stop_err(level) ==
  /\ raised' = "SystemExit"
  /\ exit_status' = Observed(level)
  /\ pc' = "exit"

\* an exception nobody catches: traceback, status 1
Uncaught(exc) ==
  /\ raised' = exc
  /\ exit_status' = 1
  /\ pc' = "exit"

(***************************************************************************)
(* The script, top to bottom.                                              *)
(***************************************************************************)
\* an accepted list with a fourth classifier
OrganismsAndPlant == {"euk", "gram+", "gram-", "plant"}

\* line 52
Organisms == {"euk", "gram+", "gram-"}

\* lines 49-55
CheckArgs ==
  /\ pc = "args"
  /\ IF Len(argv) + 1 # 4 THEN stop_err(1)
     ELSE IF argv[1] \notin Organisms THEN stop_err(1)
     ELSE /\ pc' = "split"
          /\ UNCHANGED <<raised, exit_status>>
  /\ UNCHANGED <<argv, input, n, truncate, it, files, fasta_files, temp_files, k,
                 error_level, cmds, fs, out_handle>>

\* lines 88-106: one pass of split_fasta's loop that writes a chunk file
SplitChunk ==
  /\ pc = "split"
  /\ LET d == DrawRecords(input, it, n, <<>>)
         new_filename == ChunkName(argv[2], Len(files))
     IN  /\ d.raised = "none"
         /\ d.records # <<>>
         /\ it' = d.it
         /\ fs' = WriteFile(fs, new_filename, ChunkText(d.records, truncate))
         /\ files' = Append(files, new_filename)
  /\ UNCHANGED <<argv, input, n, truncate, pc, fasta_files, temp_files, k,
                 error_level, cmds, out_handle, raised, exit_status>>

\* line 74 reached from line 92: the ValueError leaves split_fasta and the script
SplitRaise ==
  /\ pc = "split"
  /\ LET d == DrawRecords(input, it, n, <<>>)
     IN  /\ d.raised # "none"
         /\ it' = d.it
         /\ Uncaught(d.raised)
  /\ UNCHANGED <<argv, input, n, truncate, files, fasta_files, temp_files, k,
                 error_level, cmds, fs, out_handle>>

\* lines 95-96, 107, 121-122, 130: the empty draw ends split_fasta
SplitReturn ==
  /\ pc = "split"
  /\ LET d == DrawRecords(input, it, n, <<>>)
     IN  /\ d.raised = "none"
         /\ d.records = <<>>
         /\ it' = d.it
  /\ fasta_files' = files
  /\ temp_files' = [i \in 1..Len(files) |-> TempName(files[i])]
  /\ error_level' = 0
  /\ k' = 0
  /\ pc' = "invoke"
  /\ UNCHANGED <<argv, input, n, truncate, files, cmds, fs, out_handle, raised,
                 exit_status>>

\* zip that pairs each chunk with the result file of the mirrored ordinal
PairsMirrored ==
  [i \in 1..Len(fasta_files) |-> <<fasta_files[i], temp_files[Len(temp_files) + 1 - i]>>]

\* line 131: zip(fasta_files, temp_files)
Pairs == [i \in 1..(IF Len(fasta_files) < Len(temp_files)
                    THEN Len(fasta_files) ELSE Len(temp_files))
            |-> <<fasta_files[i], temp_files[i]>>]

\* line 132: the command, as its three parameters
Cmd(organism, fasta, temp) == [organism |-> organism, fasta |-> fasta, temp |-> temp]

\* lines 131-134: os.system is entered for the next chunk
SystemCall ==
  /\ pc = "invoke"
  /\ k < Len(Pairs)
  /\ cmds' = Append(cmds, Cmd(argv[1], Pairs[k + 1][1], Pairs[k + 1][2]))
  /\ pc' = "system"
  /\ UNCHANGED <<argv, input, n, truncate, it, files, fasta_files, temp_files, k,
                 error_level, fs, out_handle, raised, exit_status>>

\* line 134-135: os.system returns zero; the shell's redirection has
\* created the result file and the tool has filled it
SystemReturnZero ==
  /\ pc = "system"
  /\ \E text \in ToolOutputs :
       fs' = WriteFile(fs, cmds[Len(cmds)].temp, text)
  /\ error_level' = 0
  /\ k' = k + 1
  /\ pc' = "invoke"
  /\ UNCHANGED <<argv, input, n, truncate, it, files, fasta_files, temp_files,
                 cmds, out_handle, raised, exit_status>>

\* lines 134-138: os.system returns non-zero (the result file may or may
\* not have been created); clean up and stop
SystemReturnNonZero ==
  /\ pc = "system"
  /\ \E status \in WaitStatuses \ {0} :
       /\ error_level' = status
       /\ \E left \in {fs} \cup {WriteFile(fs, cmds[Len(cmds)].temp, text) : text \in FailOutputs} :
            LET c == CleanBoth(left, fasta_files, temp_files)
            IN  /\ fs' = c.disk
                /\ IF c.raised = "none" THEN stop_err(status) ELSE Uncaught(c.raised)
  /\ UNCHANGED <<argv, input, n, truncate, it, files, fasta_files, temp_files, k,
                 cmds, out_handle>>

\* lines 140-149: open the output table and write the header
OpenOutput ==
  /\ pc = "invoke"
  /\ k >= Len(Pairs)
  /\ out_handle' = "open"
  /\ fs' = WriteFile(fs, <<argv[3]>>, <<HeaderLine>>)
  /\ k' = 0
  /\ pc' = "merge"
  /\ UNCHANGED <<argv, input, n, truncate, it, files, fasta_files, temp_files,
                 error_level, cmds, raised, exit_status>>

\* lines 150-153: one result file merged.  What was written before an
\* AssertionError stays in the output table: it is flushed when the
\* interpreter exits.
MergeFile ==
  /\ pc = "merge"
  /\ k < Len(temp_files)
  /\ LET r == clean_tabular(fs[temp_files[k + 1]], fs[<<argv[3]>>])
     IN  /\ fs' = WriteFile(fs, <<argv[3]>>, r.out)
         /\ IF r.raised = "none"
            THEN /\ k' = k + 1
                 /\ UNCHANGED <<pc, raised, exit_status>>
            ELSE /\ Uncaught(r.raised)
                 /\ UNCHANGED k
  /\ UNCHANGED <<argv, input, n, truncate, it, files, fasta_files, temp_files,
                 error_level, cmds, out_handle>>

\* lines 154-157: close the output, remove the chunk and result files,
\* fall off the end of the script
Finish ==
  /\ pc = "merge"
  /\ k >= Len(temp_files)
  /\ out_handle' = "closed"
  /\ LET c == CleanBoth(fs, fasta_files, temp_files)
     IN  /\ fs' = c.disk
         /\ IF c.raised = "none"
            THEN /\ exit_status' = 0
                 /\ pc' = "exit"
                 /\ UNCHANGED raised
            ELSE Uncaught(c.raised)
  /\ UNCHANGED <<argv, input, n, truncate, it, files, fasta_files, temp_files, k,
                 error_level, cmds>>

Next ==
  \/ CheckArgs
  \/ SplitChunk
  \/ SplitRaise
  \/ SplitReturn
  \/ SystemCall
  \/ SystemReturnZero
  \/ SystemReturnNonZero
  \/ OpenOutput
  \/ MergeFile
  \/ Finish

Spec == Init /\ [][Next]_vars

(***************************************************************************)
(* Properties.                                                             *)
(***************************************************************************)
\* the chunk input files and chunk result files of a run
IsChunkPath(p) == Len(p) = 3 /\ p[3] = "tmp"
IsResultPath(p) == Len(p) = 4 /\ p[3] = "tmp" /\ p[4] = "out"

\* the header lines of a FASTA text
HeaderLines(lines) == {i \in 1..Len(lines) : lines[i][1] = ">"}

\* every header of the input carries a title
AllTitled(lines) ==
  \A i \in HeaderLines(lines) : \E j \in 2..Len(lines[i]) : lines[i][j] \notin Whitespace

\* ceil(a / b)
Ceil(a, b) == (a + b - 1) \div b

\* split_fasta has just returned: nothing has been invoked yet
SplitReturned == pc = "invoke" /\ k = 0 /\ cmds = <<>>

\* C1: for an input of N records with non-empty titles and a chunk size C,
\* split_fasta returns ceil(N/C) chunk files; all but the last hold C
\* records and the last holds the remainder, between 1 and C.
C1_ChunkCount ==
  (SplitReturned /\ AllTitled(input)) =>
    LET N == Cardinality(HeaderLines(input))
        count == Len(fasta_files)
        held(i) == Cardinality(HeaderLines(fs[fasta_files[i]]))
    IN  /\ count = Ceil(N, n)
        /\ \A i \in 1..count : isfile(fs, fasta_files[i])
        /\ \A i \in 1..(count - 1) : held(i) = n
        /\ count > 0 => /\ held(count) = N - n * (count - 1)
                        /\ held(count) >= 1
                        /\ held(count) <= n

\* C1 on three records in chunks of two: a full chunk and a remainder
C1_Witness ==
  /\ SplitReturned
  /\ AllTitled(input)
  /\ Cardinality(HeaderLines(input)) = 3
  /\ n = 2
  /\ Len(fasta_files) = 2

\* a tool invocation has returned a non-zero status
ToolFailed == error_level # 0

\* C2: once an invocation has returned non-zero the process is over, no
\* command beyond the failing one has been issued, and the output table
\* has been neither opened nor written.
C2_FailFast ==
  ToolFailed =>
    /\ pc = "exit"
    /\ Len(cmds) = k + 1
    /\ out_handle = "none"
    /\ ~isfile(fs, TabularPath)

\* C2 when chunk 2 of 3 fails
C2_Witness ==
  /\ ToolFailed
  /\ pc = "exit"
  /\ Len(fasta_files) = 3
  /\ Len(cmds) = 2

\* C3: when an invocation has failed, the process ends by stop_err (the
\* clean-up raised nothing) and no chunk input file and no chunk result
\* file is left, whatever its ordinal.
C3_FailureCleanup ==
  (ToolFailed /\ pc = "exit") =>
    /\ raised = "SystemExit"
    /\ \A p \in DOMAIN fs : ~IsChunkPath(p) /\ ~IsResultPath(p)

\* C3 when chunk 1 of 3 fails: two result files were never created
C3_Witness ==
  /\ ToolFailed
  /\ pc = "exit"
  /\ raised = "SystemExit"
  /\ Len(fasta_files) = 3
  /\ Len(cmds) = 1
  /\ DOMAIN fs = {}

\* C4: when the process has ended, however it ended, no chunk input file
\* and no chunk result file of the run is left.
C4_NoIntermediateLeft ==
  pc = "exit" => \A p \in DOMAIN fs : ~IsChunkPath(p) /\ ~IsResultPath(p)

\* C5: when the process has ended in an error, the output table holds
\* nothing this run wrote (no file of the model exists before the run).
C5_NoPartialOutput ==
  (pc = "exit" /\ raised # "none") => ~isfile(fs, TabularPath)

\* C6: when an invocation has failed, the status the caller observes is
\* the value given to sys.exit modulo 256, and it is not zero.
C6_NonZeroExit ==
  (pc = "exit" /\ ToolFailed) =>
    /\ exit_status = error_level % 256
    /\ exit_status # 0

\* line.rstrip("\n").split("\t"): the tab-separated fields of a table line
FieldsOf(line) == splitOn(rstripChars(line, {"\n"}), "\t")

\* a raw line of 21 whitespace-separated fields whose field 14 starts with
\* its field 0
WellFormedRaw(line) ==
  LET parts == split(line) IN Len(parts) = 21 /\ startswith(parts[15], parts[1])

\* every line clean_tabular writes for the raw line has `width` fields,
\* the first of them the raw line's field 14
NormalizedTo(line, width) ==
  LET w == clean_tabular(<<line>>, <<>>) IN
  /\ w.raised = "none"
  /\ \A j \in 1..Len(w.out) :
       /\ Len(FieldsOf(w.out[j])) = width
       /\ FieldsOf(w.out[j])[1] = split(line)[15]

\* an invocation has just returned zero: the raw lines it has left
JustReturned == pc = "invoke" /\ k >= 1
LastResult == fs[temp_files[k]]

\* C7 as claimed: a well-formed raw line is written as 19 tab-separated
\* fields, the first being its field 14.
C7_Nineteen ==
  JustReturned =>
    \A i \in 1..Len(LastResult) :
      WellFormedRaw(LastResult[i]) => NormalizedTo(LastResult[i], 19)

\* C7 amended: a well-formed raw line is written as 20 tab-separated
\* fields (one field fewer than the raw line), the first being its field 14.
C7_Twenty ==
  JustReturned =>
    \A i \in 1..Len(LastResult) :
      WellFormedRaw(LastResult[i]) => NormalizedTo(LastResult[i], 20)

\* C7 on a line with a truncated name, merged into the output table
C7_Witness ==
  /\ pc = "merge"
  /\ k = 1
  /\ fs[temp_files[1]] = <<comment, header21, good1, good2>>
  /\ WellFormedRaw(good1)
  /\ fs[TabularPath] = <<HeaderLine, Normalized(Parts(good1)), Normalized(Parts(good2))>>

\* the final output schema, in order
FinalSchema ==
  <<"ID", "NN_Cmax_score", "NN_Cmax_pos", "NN_Cmax_pred", "NN_Ymax_score",
    "NN_Ymax_pos", "NN_Ymax_pred", "NN_Smax_score", "NN_Smax_pos", "NN_Smax_pred",
    "NN_Smean_score", "NN_Smean_pred", "NN_D_score", "NN_D_pred", "HMM_type",
    "HMM_Cmax_score", "HMM_Cmax_pos", "HMM_Cmax_pred", "HMM_Sprob_score",
    "HMM_Sprob_pred">>

\* the run has ended in success
Succeeded == pc = "exit" /\ raised = "none" /\ exit_status = 0

DataLines(raw) == SelectSeq(raw, LAMBDA line : line[1] # "#")

\* the data lines of the first m result files, file after file
RECURSIVE DataUpTo(_)
DataUpTo(m) ==
  IF m = 0 THEN <<>> ELSE DataUpTo(m - 1) \o DataLines(fs[temp_files[m]])

\* the fields a raw data line is to be written as
ExpectedFields(line) ==
  LET p == split(line) IN <<p[15]>> \o SubSeq(p, 2, 14) \o SubSeq(p, 16, Len(p))

\* the output table is a header line followed by the data lines of the
\* first m result files, each normalized, in order
Concatenated(m) ==
  LET table == fs[TabularPath]
      data == DataUpTo(m)
  IN  /\ Len(table) = 1 + Len(data)
      /\ table[1][1] = "#"
      /\ \A j \in 1..Len(data) :
           /\ table[j + 1][Len(table[j + 1])] = "\n"
           /\ FieldsOf(table[j + 1]) = ExpectedFields(data[j])

\* C9: the step that ends a successful run leaves the output table as it
\* is, and the table is then the header followed by the normalized data
\* lines of result file 0, then 1, and so on, in file order.
C9_Concatenation ==
  [][(pc = "merge" /\ pc' = "exit" /\ raised' = "none") =>
       /\ Concatenated(Len(fasta_files))
       /\ isfile(fs', TabularPath)
       /\ fs'[TabularPath] = fs[TabularPath]]_vars

\* C9 on two result files, the first with a header line and two data lines
C9_Witness ==
  /\ Succeeded
  /\ Len(temp_files) = 2
  /\ Len(fs[TabularPath]) = 4
  /\ FieldsOf(fs[TabularPath][2])[1] = <<"g", "i", "1">>

\* C10: while the chunks are being run, the commands issued so far are
\* those of ordinals 0, 1, ... in order, each reading chunk file i and
\* writing <chunk file i>.out; a command is issued only when every earlier
\* one has returned and left its result file; once all have returned zero
\* each chunk has been invoked exactly once.
C10_InOrder ==
  /\ pc \in {"invoke", "system"} =>
       /\ Len(cmds) = k + (IF pc = "system" THEN 1 ELSE 0)
       /\ Len(cmds) <= Len(fasta_files)
       /\ \A j \in 1..k : isfile(fs, cmds[j].temp)
  /\ pc = "merge" => Len(cmds) = Len(fasta_files)
  /\ \A j \in 1..Len(cmds) :
       /\ cmds[j].fasta = fasta_files[j]
       /\ cmds[j].fasta = <<argv[2], j - 1, "tmp">>
       /\ cmds[j].temp = <<argv[2], j - 1, "tmp", "out">>
       /\ cmds[j].organism = argv[1]
       /\ pc \in {"invoke", "system"} => isfile(fs, cmds[j].fasta)

\* C10 after three invocations that returned zero
C10_Witness ==
  /\ pc = "merge"
  /\ Len(cmds) = 3
  /\ error_level = 0

\* the run has ended with nothing raised: every invocation returned zero
\* and every result line passed the checks of clean_tabular
EndedUnraised == pc = "exit" /\ raised = "none"

\* C11: a run that ends with nothing raised has gone through every
\* invocation and every merge, its exit status is zero, the output table
\* exists, holds its header and is closed, and no chunk input file and no
\* chunk result file is left.
C11_SuccessEnd ==
  EndedUnraised =>
    /\ error_level = 0
    /\ Len(cmds) = Len(fasta_files)
    /\ k = Len(temp_files)
    /\ exit_status = 0
    /\ out_handle = "closed"
    /\ isfile(fs, TabularPath)
    /\ fs[TabularPath][1] = HeaderLine
    /\ \A i \in 1..Len(fasta_files) :
         ~isfile(fs, fasta_files[i]) /\ ~isfile(fs, temp_files[i])
    /\ \A p \in DOMAIN fs : ~IsChunkPath(p) /\ ~IsResultPath(p)

\* C11 on a run of three chunks
C11_Witness ==
  /\ EndedUnraised
  /\ Len(fasta_files) = 3
  /\ Len(cmds) = 3
  /\ DOMAIN fs = {TabularPath}

\* the command line is one the script rejects: not exactly three arguments,
\* or a classifier other than the three accepted
BadCommandLine ==
  \/ Len(argv) # 3
  \/ argv[1] \notin {"euk", "gram+", "gram-"}

\* C12: on a rejected command line the run never leaves the argument check
\* except by stop_err with a non-zero status; the input is never read, no
\* chunk file or output table is created and no command is issued.
C12_RejectFirst ==
  BadCommandLine =>
    /\ pc \in {"args", "exit"}
    /\ pc = "exit" => raised = "SystemExit" /\ exit_status = 1
    /\ it = NewIterator
    /\ files = <<>> /\ fasta_files = <<>> /\ temp_files = <<>>
    /\ cmds = <<>>
    /\ out_handle = "none"
    /\ DOMAIN fs = {}

\* C12 on an unknown classifier with an input of three records
C12_Witness ==
  /\ argv[1] = "plant"
  /\ Len(argv) = 3
  /\ pc = "exit"
  /\ raised = "SystemExit"
  /\ Cardinality(HeaderLines(input)) = 3
  /\ AllTitled(input)

\* every record fasta_iterator yields for a text, in order, and how the
\* iteration ended
RECURSIVE ReadFrom(_, _, _)
ReadFrom(lines, iter, records) ==
  LET r == IterNext(lines, iter) IN
  IF r.kind = "record" THEN ReadFrom(lines, r.it, Append(records, r.rec))
  ELSE [records |-> records, kind |-> r.kind]

ReadAll(lines) == ReadFrom(lines, NewIterator, <<>>)

\* the records of a chunk file, taken from its lines two by two: the title
\* after ">" and the sequence, without their line ends
WrittenRecords(text) ==
  [j \in 1..(Len(text) \div 2) |->
     << SubSeq(text[2 * j - 1], 2, Len(text[2 * j - 1]) - 1),
        SubSeq(text[2 * j], 1, Len(text[2 * j]) - 1) >>]

\* the records of the first m chunk files written, file after file
RECURSIVE WrittenUpTo(_)
WrittenUpTo(m) ==
  IF m = 0 THEN <<>> ELSE WrittenUpTo(m - 1) \o WrittenRecords(fs[files[m]])

\* split_fasta is running or has just returned: its chunk files are on disk
ChunksOnDisk == pc = "split" \/ SplitReturned

\* C13: each record written to a chunk file carries the first `truncate`
\* characters of the sequence parsed for it: exactly `truncate` characters
\* when the parsed sequence is longer, the parsed sequence itself otherwise.
C13_Truncated ==
  ChunksOnDisk =>
    LET written == WrittenUpTo(Len(files))
        parsed == ReadAll(input).records
    IN  /\ Len(written) <= Len(parsed)
        /\ \A j \in 1..Len(written) :
             LET w == written[j][2]
                 q == parsed[j][2]
             IN  /\ Len(w) <= Len(q)
                 /\ w = SubSeq(q, 1, Len(w))
                 /\ Len(q) > truncate => Len(w) = truncate
                 /\ Len(q) <= truncate => w = q

\* C13 on a record whose sequence, longer than `truncate`, was written cut
\* to exactly `truncate` characters
C13_Witness ==
  /\ SplitReturned
  /\ truncate = MaxTrunc
  /\ LET written == WrittenUpTo(Len(files))
         parsed == ReadAll(input).records
     IN  \E j \in 1..Len(written) :
           /\ Len(parsed[j][2]) > truncate
           /\ Len(written[j][2]) = truncate
           /\ written[j][2] # parsed[j][2]

\* the records read back from the first m chunk files with fasta_iterator
RECURSIVE ReadBackUpTo(_)
ReadBackUpTo(m) ==
  IF m = 0 THEN <<>>
  ELSE ReadBackUpTo(m - 1) \o ReadAll(fs[fasta_files[m]]).records

\* s is a prefix of q
IsPrefix(s, q) == Len(s) <= Len(q) /\ s = SubSeq(q, 1, Len(s))

\* C14: when split_fasta has returned, reading every chunk file in list
\* order gives as many records as the input holds, with the same titles in
\* the same order, each sequence a prefix of the input's.
C14_RoundTrip ==
  SplitReturned =>
    LET back == ReadBackUpTo(Len(fasta_files))
        parsed == ReadAll(input).records
    IN  /\ \A i \in 1..Len(fasta_files) : ReadAll(fs[fasta_files[i]]).kind = "StopIteration"
        /\ Len(back) = Len(parsed)
        /\ \A j \in 1..Len(back) :
             /\ back[j][1] = parsed[j][1]
             /\ IsPrefix(back[j][2], parsed[j][2])

\* C14 on three records with two different titles in chunks of two
C14_Witness ==
  /\ SplitReturned
  /\ n = 2
  /\ Len(fasta_files) = 2
  /\ LET back == ReadBackUpTo(2)
     IN  /\ Len(back) = 3
         /\ back[1][1] # back[2][1]
         /\ back = WrittenUpTo(2)

\* the merge loop is about to hand result file k to clean_tabular
MergeStep == pc = "merge" /\ k < Len(temp_files)
Merging == fs[temp_files[k + 1]]

\* the step has ended the run in the AssertionError of clean_tabular, and
\* has written at most one line for each line of the file before line i
\* that does not start with "#": nothing for line i, nothing for a later one
FailsAt(i) ==
  /\ raised' = "AssertionError"
  /\ pc' = "exit"
  /\ exit_status' # 0
  /\ k' = k
  /\ Len(fs'[TabularPath]) - Len(fs[TabularPath])
       <= Len(DataLines(SubSeq(Merging, 1, i - 1)))

\* C15 as claimed: merging a result file that holds a line whose number of
\* whitespace-separated fields is not 21 fails, with nothing written for
\* that line or a later one.
C15_AnyLine ==
  [][MergeStep =>
       \A i \in 1..Len(Merging) :
         Len(split(Merging[i])) # 21 => FailsAt(i)]_vars

\* C15 amended: merging a result file that holds a line not beginning with
\* "#" whose number of whitespace-separated fields is not 21 fails, with
\* nothing written for that line or a later one.
C15_DataLine ==
  [][MergeStep =>
       \A i \in 1..Len(Merging) :
         (Merging[i][1] # "#" /\ Len(split(Merging[i])) # 21) => FailsAt(i)]_vars

\* C15 on a second result file whose only line has 20 fields: the table
\* keeps the line of the first file and gets nothing more
C15_Witness ==
  /\ raised = "AssertionError"
  /\ k = 1
  /\ fs[temp_files[1]] = <<good2>>
  /\ fs[temp_files[2]] = <<short>>
  /\ Len(split(short)) = 20
  /\ fs[TabularPath] = <<HeaderLine, Normalized(Parts(good2))>>

\* a raw line of 21 fields whose field 14 does not start with its field 0
Mismatched(line) ==
  LET parts == split(line) IN Len(parts) = 21 /\ ~startswith(parts[15], parts[1])

\* no line of the table carries the raw line's field 14 as its identifier
NotWritten(table, line) ==
  \A j \in 2..Len(table) : FieldsOf(table[j])[1] # split(line)[15]

\* C16 as claimed: merging a result file that holds a 21-field line whose
\* field 14 does not start with its field 0 fails, and the line is not
\* written.
C16_AnyLine ==
  [][MergeStep =>
       \A i \in 1..Len(Merging) :
         Mismatched(Merging[i]) =>
           FailsAt(i) /\ NotWritten(fs'[TabularPath], Merging[i])]_vars

\* C16 amended: merging a result file that holds a 21-field line not
\* beginning with "#" whose field 14 does not start with its field 0 fails,
\* and the line is not written.
C16_DataLine ==
  [][MergeStep =>
       \A i \in 1..Len(Merging) :
         (Merging[i][1] # "#" /\ Mismatched(Merging[i])) =>
           FailsAt(i) /\ NotWritten(fs'[TabularPath], Merging[i])]_vars

\* C16 on a first result file whose second line names "gi" and "hi1": the
\* line before it is written, the line itself is not
C16_Witness ==
  /\ raised = "AssertionError"
  /\ k = 0
  /\ fs[temp_files[1]] = <<good1, mismatch>>
  /\ Mismatched(mismatch)
  /\ fs[TabularPath] = <<HeaderLine, Normalized(Parts(good1))>>

\* a line the merge is to skip: blank (a line end or white space only) or
\* beginning with "#"
ToBeSkipped(line) == strip(line) = <<>> \/ line[1] = "#"

\* C17: merging a result file gives what merging it without its blank and
\* "#" lines gives: those lines raise nothing and write nothing.
C17_BlankSkipped ==
  [][MergeStep =>
       LET kept == SelectSeq(Merging, LAMBDA line : ~ToBeSkipped(line))
           r == clean_tabular(kept, fs[TabularPath])
       IN  /\ fs'[TabularPath] = r.out
           /\ (raised' = "AssertionError") <=> (r.raised = "AssertionError")]_vars

\* split_fasta is about to draw its first record
ReaderFresh == pc = "split" /\ it = NewIterator

\* the header lines of a text, in file order
HeaderSeq(lines) ==
  SelectSeq([i \in 1..Len(lines) |-> i], LAMBDA i : lines[i][1] = ">")

\* the line is blank or begins with "#"
BlankOrHash(line) == strip(line) = <<>> \/ line[1] = "#"

\* the number of lines before the first header (all of them if there is none)
Preamble(lines) ==
  IF HeaderLines(lines) = {} THEN Len(lines)
  ELSE (CHOOSE i \in HeaderLines(lines) : \A j \in HeaderLines(lines) : i <= j) - 1

\* no line before the first header is anything but blank or "#"
CleanPreamble(lines) == \A i \in 1..Preamble(lines) : BlankOrHash(lines[i])

\* lines a to b, each without the white space around it, one after another
RECURSIVE Joined(_, _, _)
Joined(lines, a, b) ==
  IF a > b THEN <<>> ELSE strip(lines[a]) \o Joined(lines, a + 1, b)

\* C18: for an input with nothing but blank and "#" lines before its first
\* header, the reader ends without error having yielded one record for
\* each header line, in file order: the title is the header without ">"
\* and trailing white space, the sequence the lines up to the next header
\* or the end of the input, joined.
C18_OnePerHeader ==
  (ReaderFresh /\ CleanPreamble(input)) =>
    LET r == ReadAll(input)
        h == HeaderSeq(input)
        last(j) == IF j = Len(h) THEN Len(input) ELSE h[j + 1] - 1
    IN  /\ r.kind = "StopIteration"
        /\ Len(r.records) = Len(h)
        /\ \A j \in 1..Len(h) :
             /\ r.records[j][1] = rstrip(SubSeq(input[h[j]], 2, Len(input[h[j]])))
             /\ r.records[j][2] = Joined(input, h[j] + 1, last(j))

\* C19: blank and "#" lines before the first header change nothing the
\* reader yields; any other line there ends the reading in a ValueError
\* before a record is yielded, and the run goes no further than
\* split_fasta; a run ended by a ValueError has issued no command and has
\* not opened or created the output table.
C19_BeforeFirstHeader ==
  /\ ReaderFresh =>
       IF CleanPreamble(input)
       THEN ReadAll(input) = ReadAll(SubSeq(input, Preamble(input) + 1, Len(input)))
       ELSE ReadAll(input) = [records |-> <<>>, kind |-> "ValueError"]
  /\ (pc # "args" /\ ~BadCommandLine /\ ~CleanPreamble(input)) =>
       /\ pc \in {"split", "exit"}
       /\ files = <<>>
       /\ pc = "exit" => raised = "ValueError"
  /\ raised = "ValueError" =>
       /\ pc = "exit"
       /\ exit_status # 0
       /\ fasta_files = <<>>
       /\ cmds = <<>>
       /\ out_handle = "none"
       /\ ~isfile(fs, TabularPath)

\* C19 on a "#" line, a sequence line and then the first header
C19_Witness ==
  /\ raised = "ValueError"
  /\ pc = "exit"
  /\ Len(input) = 3
  /\ input[1][1] = "#"
  /\ ~BlankOrHash(input[2])
  /\ HeaderLines(input) = {3}

\* the input holds no record: it is empty or all its lines are blank or
\* begin with "#"
NoRecords(lines) == \A i \in 1..Len(lines) : BlankOrHash(lines[i])

\* C20: on an accepted command line and an input without records, no chunk
\* file is ever created, no command issued and nothing raised; the table,
\* once opened, is the header line alone, and the run ends with status zero
\* and the table closed.
C20_NoRecords ==
  (NoRecords(input) /\ Len(argv) = 3 /\ argv[1] \in {"euk", "gram+", "gram-"}) =>
    /\ pc \in {"args", "split", "invoke", "merge", "exit"}
    /\ raised = "none"
    /\ files = <<>> /\ fasta_files = <<>> /\ temp_files = <<>>
    /\ cmds = <<>>
    /\ \A p \in DOMAIN fs : ~IsChunkPath(p) /\ ~IsResultPath(p)
    /\ pc \in {"args", "split", "invoke"} <=> ~isfile(fs, TabularPath)
    /\ isfile(fs, TabularPath) => fs[TabularPath] = <<HeaderLine>>
    /\ pc = "exit" => exit_status = 0 /\ out_handle = "closed"

\* C20 on an input of three lines, a "#" line and a blank line first
C20_Witness ==
  /\ pc = "exit"
  /\ exit_status = 0
  /\ Len(input) = 3
  /\ NoRecords(input)
  /\ input[1][1] = "#"
  /\ input[2] = <<"\n">>
  /\ fs[TabularPath] = <<HeaderLine>>

====
